---- MODULE Spec2Model ----
(***************************************************************************)
(* Model of go/libkb/logout.go: the logout entry points                    *)
(* (LogoutKillSecrets, LogoutKeepSecrets, LogoutWithOptions,               *)
(* LogoutUsernameWithOptions), logoutSecretStore, LogoutSelfCheck and      *)
(* CanLogout, run by concurrent callers against one GlobalContext.         *)
(* Every collaborator call of the code is one step of the calling process, *)
(* so that the position of each caller is part of the state.               *)
(***************************************************************************)
EXTENDS Integers, Sequences, FiniteSets, TLC

\* Number of concurrent callers (goroutines) using the GlobalContext.
NumProcs == 2

Procs == 1..NumProcs

\* switchUserMu / secretStoreMu / cacheMu holder when the lock is free.
NoProc == 0

Users == {"alice", "bob"}

\* NormalizedUsername for which IsNil() holds.
NoUser == ""

KeychainModeNone == "KeychainModeNone"

KeychainModeOS == "KeychainModeOS"

\* Any value of the integer type KeychainMode other than the two named ones.
KeychainModeOther == "KeychainModeOther"

KeychainModes == {KeychainModeNone, KeychainModeOS, KeychainModeOther}

\* The ActiveDevice after ClearGetKeychainMode: no uid, no device, not valid.
ClearedDevice ==
    [user |-> NoUser, device |-> FALSE, valid |-> FALSE, mode |-> KeychainModeNone]

\* The ActiveDevice values a login or a provisioning in progress installs:
\* a valid device has its device id; a provisional one has its uid only, in
\* whatever keychain mode it was set up.
LoggedInDevices ==
    { d \in [user : Users, device : BOOLEAN, valid : BOOLEAN, mode : KeychainModes] :
        d.valid = d.device }

\* keybase1.CanLogoutRes
ZeroCanLogoutRes == [CanLogout |-> FALSE, Reason |-> "", SetPassphrase |-> FALSE]

ReasonNoPassphraseCheck == "We couldn't ensure that your account has a passphrase"

ReasonRandomPW == "You signed up without a password and need to set a password first"

\* error values
ErrNil == [kind |-> "nil", reason |-> ""]

ErrCannotLogout(reason) == [kind |-> "Cannot log out", reason |-> reason]

ErrClear == [kind |-> "ClearGetKeychainMode", reason |-> ""]

ErrUPAK == [kind |-> "UPAKLoader.OnLogout", reason |-> ""]

ErrPost == [kind |-> "API.Post", reason |-> ""]

ErrGetBool == [kind |-> "GetBool", reason |-> ""]

\* LogoutOptions
LogoutOptions == [KeepSecrets : BOOLEAN, Force : BOOLEAN]

ZeroOptions == [KeepSecrets |-> FALSE, Force |-> FALSE]

NotRead == "-"

ZeroSeen == [valid |-> NotRead, mode |-> NotRead, check |-> NotRead, pw |-> NotRead]

NoEntry == [taken |-> FALSE, ActiveDevice |-> ClearedDevice, secrets |-> {}, switchedUsers |-> {}]

VARIABLES
    ActiveDevice,    \* g.ActiveDevice: user (uid/username), device id, validity, keychain mode
    secretStore,     \* g.secretStore # nil
    secrets,         \* usernames with a secret in the secret store
    switchedUsers,   \* g.switchedUsers
    switchUserMu,    \* holder of g.switchUserMu
    secretStoreMu,   \* holder of g.secretStoreMu
    cacheMu,         \* holder of the cache lock taken inside FlushCaches
    pc,              \* position of each caller
    op,              \* entry point each caller is in
    username,        \* the username argument of LogoutUsernameWithOptions
    options,         \* the options argument
    keychainMode,    \* local keychainMode of LogoutUsernameWithOptions
    canLogoutRes,    \* result of CanLogout
    err,             \* the error the entry point returns
    calls,           \* calls the current invocation has made, in order, CanLogout's apart
    seen,            \* what the current CanLogout evaluation read and was answered
    atEntry,         \* the shared state when the lock holder acquired switchUserMu
    preserved        \* per username, history: "retained" by a keep-secrets logout in
                     \* the secret store, "skipped" when one left its stored secret
                     \* without recording it, "no" at first and once erased

shared == <<ActiveDevice, secretStore, secrets, switchedUsers>>

locks == <<switchUserMu, secretStoreMu, cacheMu>>

args == <<op, username, options>>

locals == <<keychainMode, canLogoutRes, err, seen>>

vars == <<ActiveDevice, secretStore, secrets, switchedUsers, switchUserMu, secretStoreMu,
          cacheMu, pc, op, username, options, keychainMode, canLogoutRes, err, calls,
          seen, atEntry, preserved>>

Init ==
    /\ ActiveDevice = ClearedDevice
    /\ secretStore \in BOOLEAN
    /\ secrets = {}
    /\ switchedUsers = {}
    /\ switchUserMu = NoProc
    /\ secretStoreMu = NoProc
    /\ cacheMu = NoProc
    /\ pc = [p \in Procs |-> "idle"]
    /\ op = [p \in Procs |-> "none"]
    /\ username = [p \in Procs |-> NoUser]
    /\ options = [p \in Procs |-> ZeroOptions]
    /\ keychainMode = [p \in Procs |-> NotRead]
    /\ canLogoutRes = [p \in Procs |-> ZeroCanLogoutRes]
    /\ err = [p \in Procs |-> ErrNil]
    /\ calls = [p \in Procs |-> <<>>]
    /\ seen = [p \in Procs |-> ZeroSeen]
    /\ atEntry = NoEntry
    /\ preserved = [u \in Users |-> "no"]

Goto(p, l) == pc' = [pc EXCEPT ![p] = l]

Call(p, c) == calls' = [calls EXCEPT ![p] = Append(@, c)]

Called(p, c) == \E i \in 1..Len(calls[p]) : calls[p][i] = c

(***************************************************************************)
(* Login and provisioning are outside logout.go.  They install a session   *)
(* in the ActiveDevice under switchUserMu, and a login in OS keychain mode *)
(* leaves the user's secret in the secret store when there is one.         *)
(***************************************************************************)
Login(d) ==
    /\ switchUserMu = NoProc
    /\ ~ActiveDevice.valid
    /\ ActiveDevice' = d
    /\ secrets' = IF d.valid /\ d.mode = KeychainModeOS /\ secretStore
                  THEN secrets \cup {d.user} ELSE secrets
    /\ UNCHANGED <<secretStore, switchedUsers, locks, pc, args, locals, calls,
                   atEntry, preserved>>

(***************************************************************************)
(* Entry points.                                                           *)
(***************************************************************************)
Enter(p, name, o, l) ==
    /\ pc[p] = "idle"
    /\ op' = [op EXCEPT ![p] = name]
    /\ options' = [options EXCEPT ![p] = o]
    /\ Goto(p, l)

\* func (mctx MetaContext) LogoutKillSecrets()
LogoutKillSecrets(p) ==
    /\ Enter(p, "LogoutWithOptions", [KeepSecrets |-> FALSE, Force |-> FALSE],
             "LogoutWithOptions")
    /\ UNCHANGED <<shared, locks, username, locals, calls, atEntry, preserved>>

\* func (mctx MetaContext) LogoutKeepSecrets()
LogoutKeepSecrets(p) ==
    /\ Enter(p, "LogoutWithOptions", [KeepSecrets |-> TRUE, Force |-> FALSE],
             "LogoutWithOptions")
    /\ UNCHANGED <<shared, locks, username, locals, calls, atEntry, preserved>>

\* A caller of LogoutWithOptions(options) with options of its own.
CallLogoutWithOptions(p, o) ==
    /\ Enter(p, "LogoutWithOptions", o, "LogoutWithOptions")
    /\ UNCHANGED <<shared, locks, username, locals, calls, atEntry, preserved>>

\* A caller of LogoutUsernameWithOptions(username, options).
CallLogoutUsernameWithOptions(p, u, o) ==
    /\ Enter(p, "LogoutUsernameWithOptions", o, "Acquire")
    /\ username' = [username EXCEPT ![p] = u]
    /\ UNCHANGED <<shared, locks, locals, calls, atEntry, preserved>>

\* A caller of CanLogout(mctx), the pre-flight query.
CallCanLogout(p) ==
    /\ Enter(p, "CanLogout", ZeroOptions, "CanLogout")
    /\ UNCHANGED <<shared, locks, username, locals, calls, atEntry, preserved>>

\* A caller of LogoutSelfCheck().
CallLogoutSelfCheck(p) ==
    /\ Enter(p, "LogoutSelfCheck", ZeroOptions, "SelfCheck_uid")
    /\ UNCHANGED <<shared, locks, username, locals, calls, atEntry, preserved>>

\* LogoutWithOptions: username := mctx.ActiveDevice().Username(mctx), read
\* before switchUserMu is acquired.
LogoutWithOptions(p) ==
    /\ pc[p] = "LogoutWithOptions"
    /\ username' = [username EXCEPT ![p] = ActiveDevice.user]
    /\ Goto(p, "Acquire")
    /\ UNCHANGED <<shared, locks, op, options, locals, calls, atEntry, preserved>>

\* Variant: Force skips CanLogout as KeepSecrets does.
AfterAcquire_ForceBypass(o) ==
    IF o.KeepSecrets \/ o.Force THEN "ClearGetKeychainMode" ELSE "CanLogout"

\* Variant: CanLogout is evaluated whatever the options are.
AfterAcquire_Always(o) == "CanLogout"

\* The policy gate of LogoutUsernameWithOptions: KeepSecrets skips CanLogout.
AfterAcquire(o) == IF o.KeepSecrets THEN "ClearGetKeychainMode" ELSE "CanLogout"

\* Variant: Acquire that does not wait for the holder.
CanAcquire_NoWait(holder) == TRUE

\* The guard of switchUserMu.Acquire: the lock is exclusive.
CanAcquire(holder) == holder = NoProc

\* Variant: a caller that finds the session already cleared by another logout
\* returns without running the teardown.
Acquire_Coalesce(p) ==
    /\ pc[p] = "Acquire"
    /\ CanAcquire(switchUserMu)
    /\ switchUserMu' = p
    /\ atEntry' = [taken |-> TRUE, ActiveDevice |-> ActiveDevice, secrets |-> secrets,
                   switchedUsers |-> switchedUsers]
    /\ Goto(p, IF ActiveDevice = ClearedDevice THEN "Release" ELSE AfterAcquire(options[p]))
    /\ UNCHANGED <<shared, secretStoreMu, cacheMu, args, locals, calls, preserved>>

\* defer g.switchUserMu.Acquire(mctx, "Logout")()
Acquire(p) ==
    /\ pc[p] = "Acquire"
    /\ CanAcquire(switchUserMu)
    /\ switchUserMu' = p
    /\ atEntry' = [taken |-> TRUE, ActiveDevice |-> ActiveDevice, secrets |-> secrets,
                   switchedUsers |-> switchedUsers]
    /\ Goto(p, AfterAcquire(options[p]))
    /\ UNCHANGED <<shared, secretStoreMu, cacheMu, args, locals, calls, preserved>>

(***************************************************************************)
(* CanLogout(mctx), lines 164-212.  Its four reads are four steps.         *)
(***************************************************************************)
SetRes(p, r) == canLogoutRes' = [canLogoutRes EXCEPT ![p] = r]

See(p, f, v) == seen' = [seen EXCEPT ![p] = [@ EXCEPT ![f] = v]]

\* Variant: a permit that carries a reason.
Permit_WithReason == [CanLogout |-> TRUE, Reason |-> "ok", SetPassphrase |-> FALSE]

\* res.CanLogout = true; return res
Permit == [CanLogout |-> TRUE, Reason |-> "", SetPassphrase |-> FALSE]

\* Variant: a session that is not valid does not return at once.
CanLogoutValid_NoShortcut(p) ==
    /\ pc[p] = "CanLogout"
    /\ See(p, "valid", IF ActiveDevice.valid THEN "yes" ELSE "no")
    /\ Goto(p, "CanLogout_mode")
    /\ UNCHANGED <<shared, locks, args, keychainMode, canLogoutRes, err, calls, atEntry,
                   preserved>>

\* if !mctx.G().ActiveDevice.Valid() { res.CanLogout = true; return res }
CanLogoutValid(p) ==
    /\ pc[p] = "CanLogout"
    /\ See(p, "valid", IF ActiveDevice.valid THEN "yes" ELSE "no")
    /\ IF ~ActiveDevice.valid
       THEN SetRes(p, Permit) /\ Goto(p, "CanLogout_ret")
       ELSE Goto(p, "CanLogout_mode") /\ UNCHANGED canLogoutRes
    /\ UNCHANGED <<shared, locks, args, keychainMode, err, calls, atEntry, preserved>>

\* Variant: every mode but the OS keychain permits.
ModePermits_NotOS(m) == m # KeychainModeOS

\* The keychain modes for which CanLogout permits without further checks.
ModePermits(m) == m = KeychainModeNone

\* Variant: the mode is read with the read-and-clear accessor.
CanLogoutMode_ReadAndClear(p) ==
    /\ pc[p] = "CanLogout_mode"
    /\ See(p, "mode", ActiveDevice.mode)
    /\ ActiveDevice' = ClearedDevice
    /\ IF ModePermits(ActiveDevice.mode)
       THEN SetRes(p, Permit) /\ Goto(p, "CanLogout_ret")
       ELSE Goto(p, "CanLogout_check") /\ UNCHANGED canLogoutRes
    /\ UNCHANGED <<secretStore, secrets, switchedUsers, locks, args, keychainMode, err,
                   calls, atEntry, preserved>>

\* if mctx.G().ActiveDevice.KeychainMode() == KeychainModeNone { ... }
CanLogoutMode(p) ==
    /\ pc[p] = "CanLogout_mode"
    /\ See(p, "mode", ActiveDevice.mode)
    /\ IF ModePermits(ActiveDevice.mode)
       THEN SetRes(p, Permit) /\ Goto(p, "CanLogout_ret")
       ELSE Goto(p, "CanLogout_check") /\ UNCHANGED canLogoutRes
    /\ UNCHANGED <<shared, locks, args, keychainMode, err, calls, atEntry, preserved>>

\* Outcomes of CheckCurrentUIDDeviceID: nil, one of DeviceNotFoundError,
\* UserNotFoundError, KeyRevokedError, NoDeviceError, NoUIDError ("stale"),
\* or any other error.
CheckOutcomes == {"ok", "stale", "other"}

\* Variant: no error of the identity check returns at once.
CheckPermits_Never(c) == FALSE

\* Variant: every error of the identity check returns at once.
CheckPermits_AnyError(c) == c # "ok"

\* The switch on the error's type: only the stale-state errors return at once.
CheckPermits(c) == c = "stale"

\* if err := CheckCurrentUIDDeviceID(mctx); err != nil { switch err.(type) ... }
CanLogoutCheck(p) ==
    /\ pc[p] = "CanLogout_check"
    /\ \E c \in CheckOutcomes :
        /\ See(p, "check", c)
        /\ IF CheckPermits(c)
           THEN SetRes(p, Permit) /\ Goto(p, "CanLogout_ret")
           ELSE Goto(p, "CanLogout_pw") /\ UNCHANGED canLogoutRes
    /\ UNCHANGED <<shared, locks, args, keychainMode, err, calls, atEntry, preserved>>

\* Outcomes of LoadHasRandomPw: (true, nil), (false, nil), (_, err).
PwOutcomes == {"random", "notrandom", "error"}

\* Variant: an error of LoadHasRandomPw is ignored.
ResOfPw_ErrorIgnored(w) ==
    IF w = "random"
    THEN [CanLogout |-> FALSE, Reason |-> ReasonRandomPW, SetPassphrase |-> TRUE]
    ELSE Permit

\* Variant: the random-password denial does not ask for a passphrase.
ResOfPw_NoSetPassphrase(w) ==
    IF w = "error"
    THEN [CanLogout |-> FALSE, Reason |-> ReasonNoPassphraseCheck, SetPassphrase |-> FALSE]
    ELSE IF w = "random"
    THEN [CanLogout |-> FALSE, Reason |-> ReasonRandomPW, SetPassphrase |-> FALSE]
    ELSE Permit

\* Variant: the denial on a failed query asks for a passphrase.
ResOfPw_ErrorSetPassphrase(w) ==
    IF w = "error"
    THEN [CanLogout |-> FALSE, Reason |-> ReasonNoPassphraseCheck, SetPassphrase |-> TRUE]
    ELSE IF w = "random"
    THEN [CanLogout |-> FALSE, Reason |-> ReasonRandomPW, SetPassphrase |-> TRUE]
    ELSE Permit

\* The result CanLogout builds from LoadHasRandomPw's answer, lines 195-211.
ResOfPw(w) ==
    IF w = "error"
    THEN [CanLogout |-> FALSE, Reason |-> ReasonNoPassphraseCheck, SetPassphrase |-> FALSE]
    ELSE IF w = "random"
    THEN [CanLogout |-> FALSE, Reason |-> ReasonRandomPW, SetPassphrase |-> TRUE]
    ELSE Permit

\* hasRandomPW, err := LoadHasRandomPw(mctx, ...) and the two ifs after it
CanLogoutPw(p) ==
    /\ pc[p] = "CanLogout_pw"
    /\ \E w \in PwOutcomes :
        /\ See(p, "pw", w)
        /\ SetRes(p, ResOfPw(w))
    /\ Goto(p, "CanLogout_ret")
    /\ UNCHANGED <<shared, locks, args, keychainMode, err, calls, atEntry, preserved>>

\* Variant: a denial returns no error.
DenialError_Swallowed(r) == ErrNil

\* What LogoutUsernameWithOptions returns on a denial, line 44.
DenialError(r) == ErrCannotLogout(r.Reason)

\* Variant: the denial is recorded but the function does not return on it.
AfterCanLogout_NoReturn(r) == "ClearGetKeychainMode"

\* if !canLogoutRes.CanLogout { return ... }: a denial leaves the function.
AfterCanLogout(r) == IF ~r.CanLogout THEN "Release" ELSE "ClearGetKeychainMode"

\* The return of CanLogout: to its caller, or into lines 43-45 of
\* LogoutUsernameWithOptions.
CanLogoutReturn(p) ==
    /\ pc[p] = "CanLogout_ret"
    /\ seen' = [seen EXCEPT ![p] = ZeroSeen]
    /\ IF op[p] = "CanLogout"
       THEN Goto(p, "done") /\ UNCHANGED err
       ELSE /\ err' = [err EXCEPT ![p] = IF ~canLogoutRes[p].CanLogout
                                          THEN DenialError(canLogoutRes[p]) ELSE @]
            /\ Goto(p, AfterCanLogout(canLogoutRes[p]))
    /\ UNCHANGED <<shared, locks, args, keychainMode, canLogoutRes, calls, atEntry,
                   preserved>>

(***************************************************************************)
(* The teardown of LogoutUsernameWithOptions, lines 48-93.                 *)
(***************************************************************************)
\* A step that only calls a collaborator without an error channel.
Step(p, here, call, next) ==
    /\ pc[p] = here
    /\ Call(p, call)
    /\ Goto(p, next)
    /\ UNCHANGED <<shared, locks, args, locals, atEntry, preserved>>

\* Variant: the error of ClearGetKeychainMode does not end the function.
AfterClearError_Continue == "LocalSigchainGuard"

\* if err != nil { return err }, line 50: the error leaves the function.
AfterClearError == "Release"

\* keychainMode, err = g.ActiveDevice.ClearGetKeychainMode(); if err != nil { return err }
ClearGetKeychainMode(p) ==
    /\ pc[p] = "ClearGetKeychainMode"
    /\ \/ /\ keychainMode' = [keychainMode EXCEPT ![p] = ActiveDevice.mode]
          /\ ActiveDevice' = ClearedDevice
          /\ Call(p, "ClearGetKeychainMode")
          /\ Goto(p, "LocalSigchainGuard")
          /\ UNCHANGED err
       \/ /\ \E d \in {ActiveDevice, ClearedDevice} : ActiveDevice' = d
          /\ err' = [err EXCEPT ![p] = ErrClear]
          /\ Call(p, "ClearGetKeychainMode:err")
          /\ Goto(p, AfterClearError)
          /\ UNCHANGED keychainMode
    /\ UNCHANGED <<secretStore, secrets, switchedUsers, locks, args, canLogoutRes, seen,
                   atEntry, preserved>>

\* g.LocalSigchainGuard().Clear(mctx.Ctx(), "Logout")
LocalSigchainGuardClear(p) ==
    Step(p, "LocalSigchainGuard", "LocalSigchainGuard.Clear", "CallLogoutHooks")

\* Variant: the per-user keyring is not cleared after the hooks.
CallLogoutHooks_SkipKeyring(p) == Step(p, "CallLogoutHooks", "CallLogoutHooks", "FlushCaches")

\* g.CallLogoutHooks(mctx)
CallLogoutHooks(p) == Step(p, "CallLogoutHooks", "CallLogoutHooks", "ClearPerUserKeyring")

\* g.ClearPerUserKeyring()
ClearPerUserKeyring(p) == Step(p, "ClearPerUserKeyring", "ClearPerUserKeyring", "FlushCaches")

\* g.FlushCaches(): takes the cacheMu lock ...
FlushCaches(p) ==
    /\ pc[p] = "FlushCaches"
    /\ cacheMu = NoProc
    /\ cacheMu' = p
    /\ Call(p, "FlushCaches")
    /\ Goto(p, "FlushCaches_unlock")
    /\ UNCHANGED <<shared, switchUserMu, secretStoreMu, args, locals, atEntry, preserved>>

\* Variant: the secret store is visited whatever mode was read.
SecretStoreGate_Always(km) == "logoutSecretStore"

\* Variant: the branch looks at the mode the session holds after the clear.
SecretStoreGate_ModeAfterClear(km) ==
    IF ActiveDevice.mode = KeychainModeOS THEN "logoutSecretStore" ELSE "ConfigReload"

\* if keychainMode == KeychainModeOS { mctx.logoutSecretStore(...) } else { ... }
SecretStoreGate(km) == IF km = KeychainModeOS THEN "logoutSecretStore" ELSE "ConfigReload"

\* The stored secret of the username was left in place by a keep-secrets
\* logout that did not visit the secret store.
NoteSkipped(p) ==
    preserved' = IF options[p].KeepSecrets /\ username[p] \in secrets
                    /\ preserved[username[p]] = "no"
                 THEN [preserved EXCEPT ![username[p]] = "skipped"]
                 ELSE preserved

\* Variant: FlushCaches returns without releasing the cache lock.
FlushCachesUnlock_Forgets(p) ==
    /\ pc[p] = "FlushCaches_unlock"
    /\ Goto(p, SecretStoreGate(keychainMode[p]))
    /\ IF SecretStoreGate(keychainMode[p]) = "logoutSecretStore"
       THEN UNCHANGED preserved ELSE NoteSkipped(p)
    /\ UNCHANGED <<shared, locks, args, locals, calls, atEntry>>

\* ... and releases it; then the branch on the keychain mode that was read.
FlushCachesUnlock(p) ==
    /\ pc[p] = "FlushCaches_unlock"
    /\ cacheMu' = NoProc
    /\ Goto(p, SecretStoreGate(keychainMode[p]))
    /\ IF SecretStoreGate(keychainMode[p]) = "logoutSecretStore"
       THEN UNCHANGED preserved ELSE NoteSkipped(p)
    /\ UNCHANGED <<shared, switchUserMu, secretStoreMu, args, locals, calls, atEntry>>

\* logoutSecretStore: g.secretStoreMu.Lock()
LogoutSecretStoreLock(p) ==
    /\ pc[p] = "logoutSecretStore"
    /\ secretStoreMu = NoProc
    /\ secretStoreMu' = p
    /\ Call(p, "logoutSecretStore")
    /\ Goto(p, "logoutSecretStore_body")
    /\ UNCHANGED <<shared, switchUserMu, cacheMu, args, locals, atEntry, preserved>>

\* Variant: only a missing secret store returns at once.
SecretStoreNoop_StoreOnly(store, u) == ~store

\* if g.secretStore == nil || username.IsNil() { return }
SecretStoreNoop(store, u) == ~store \/ u = NoUser

\* Variant: the retention is not recorded.
Retain_Forgotten(sw, u) == sw

\* g.switchedUsers[username] = true
Retain(sw, u) == sw \cup {u}

\* Variant: the entry is deleted whether or not ClearSecret succeeded.
AfterClearSecret_Always(sw, u, ok) == sw \ {u}

\* Variant: the entry is never deleted.
AfterClearSecret_Never(sw, u, ok) == sw

\* Variant: the entry is deleted when ClearSecret failed.
AfterClearSecret_Swapped(sw, u, ok) == IF ok THEN sw ELSE sw \ {u}

\* Variant: a successful erase empties the retention set.
AfterClearSecret_ClearsAll(sw, u, ok) == IF ok THEN {} ELSE sw

\* g.switchedUsers after ClearSecret returned: delete(g.switchedUsers, username)
\* is reached only when ClearSecret returned no error.
AfterClearSecret(sw, u, ok) == IF ok THEN sw \ {u} ELSE sw

\* logoutSecretStore, lines 102-119
LogoutSecretStoreBody(p) ==
    /\ pc[p] = "logoutSecretStore_body"
    /\ Goto(p, "logoutSecretStore_unlock")
    /\ IF SecretStoreNoop(secretStore, username[p])
       THEN UNCHANGED <<secrets, switchedUsers, calls, preserved>>
       ELSE IF options[p].KeepSecrets
       THEN /\ switchedUsers' = Retain(switchedUsers, username[p])
            /\ preserved' = [preserved EXCEPT ![username[p]] = "retained"]
            /\ UNCHANGED <<secrets, calls>>
       ELSE \/ /\ Call(p, "ClearSecret:err")
               /\ switchedUsers' = AfterClearSecret(switchedUsers, username[p], FALSE)
               /\ UNCHANGED <<secrets, preserved>>
            \/ /\ Call(p, "ClearSecret")
               /\ secrets' = secrets \ {username[p]}
               /\ switchedUsers' = AfterClearSecret(switchedUsers, username[p], TRUE)
               /\ preserved' = [preserved EXCEPT ![username[p]] = "no"]
    /\ UNCHANGED <<ActiveDevice, secretStore, locks, args, locals, atEntry>>

\* defer g.secretStoreMu.Unlock()
LogoutSecretStoreUnlock(p) ==
    /\ pc[p] = "logoutSecretStore_unlock"
    /\ secretStoreMu' = NoProc
    /\ Goto(p, "ConfigReload")
    /\ UNCHANGED <<shared, switchUserMu, cacheMu, args, locals, calls, atEntry, preserved>>

\* Variant: a ConfigReload error ends the function.
AfterConfigReload_Fatal(ok) == IF ok THEN "HandleLogout" ELSE "Release"

\* Variant: after a ConfigReload error the notification is not sent.
AfterConfigReload_SkipNotify(ok) == IF ok THEN "HandleLogout" ELSE "FeatureFlags"

\* A ConfigReload error is only logged: the notification comes next either way.
AfterConfigReload(ok) == "HandleLogout"

\* if err := g.ConfigReload(); err != nil { mctx.Debug(...) }
ConfigReload(p) ==
    \/ Step(p, "ConfigReload", "ConfigReload", AfterConfigReload(TRUE))
    \/ Step(p, "ConfigReload", "ConfigReload:err", AfterConfigReload(FALSE))

\* g.NotifyRouter.HandleLogout(mctx.Ctx())
HandleLogout(p) == Step(p, "HandleLogout", "NotifyRouter.HandleLogout", "FeatureFlags")

\* g.FeatureFlags.Clear()
FeatureFlagsClear(p) == Step(p, "FeatureFlags", "FeatureFlags.Clear", "IdentifyDispatch")

\* g.IdentifyDispatch.OnLogout()
IdentifyDispatchOnLogout(p) ==
    Step(p, "IdentifyDispatch", "IdentifyDispatch.OnLogout", "Identify3State")

\* g.Identify3State.OnLogout()
Identify3StateOnLogout(p) ==
    Step(p, "Identify3State", "Identify3State.OnLogout", "UPAKLoader")

\* Variant: the error of UPAKLoader.OnLogout does not end the function.
AfterUPAKError_Continue == "Pegboard"

\* Variant: the error return leaves without running the deferred release.
AfterUPAKError_NoRelease == "done"

\* Where LogoutUsernameWithOptions goes when UPAKLoader.OnLogout failed.
AfterUPAKError == "Release"

\* Variant: the error of UPAKLoader.OnLogout puts the session back.
UPAKLoaderOnLogout_Rollback(p) ==
    /\ pc[p] = "UPAKLoader"
    /\ \/ /\ Call(p, "UPAKLoader.OnLogout")
          /\ Goto(p, "Pegboard")
          /\ UNCHANGED <<err, ActiveDevice>>
       \/ /\ Call(p, "UPAKLoader.OnLogout:err")
          /\ err' = [err EXCEPT ![p] = ErrUPAK]
          /\ ActiveDevice' = atEntry.ActiveDevice
          /\ Goto(p, AfterUPAKError)
    /\ UNCHANGED <<secretStore, secrets, switchedUsers, locks, args, keychainMode,
                   canLogoutRes, seen, atEntry, preserved>>

\* err = g.GetUPAKLoader().OnLogout(); if err != nil { return err }
UPAKLoaderOnLogout(p) ==
    /\ pc[p] = "UPAKLoader"
    /\ \/ /\ Call(p, "UPAKLoader.OnLogout")
          /\ Goto(p, "Pegboard")
          /\ UNCHANGED err
       \/ /\ Call(p, "UPAKLoader.OnLogout:err")
          /\ err' = [err EXCEPT ![p] = ErrUPAK]
          /\ Goto(p, AfterUPAKError)
    /\ UNCHANGED <<shared, locks, args, keychainMode, canLogoutRes, seen, atEntry,
                   preserved>>

\* g.Pegboard.OnLogout(mctx); return nil
PegboardOnLogout(p) == Step(p, "Pegboard", "Pegboard.OnLogout", "Release")

\* Variant: the function returns without releasing switchUserMu.
Release_KeepsLock(p) ==
    /\ pc[p] = "Release"
    /\ atEntry' = NoEntry
    /\ Goto(p, "done")
    /\ username' = [username EXCEPT ![p] = NoUser]
    /\ options' = [options EXCEPT ![p] = ZeroOptions]
    /\ keychainMode' = [keychainMode EXCEPT ![p] = NotRead]
    /\ canLogoutRes' = [canLogoutRes EXCEPT ![p] = ZeroCanLogoutRes]
    /\ calls' = [calls EXCEPT ![p] = <<>>]
    /\ UNCHANGED <<shared, locks, op, err, seen, preserved>>

\* The deferred release of switchUserMu as LogoutUsernameWithOptions returns
\* err: the invocation's arguments and locals are gone, the caller has err.
Release(p) ==
    /\ pc[p] = "Release"
    /\ switchUserMu' = NoProc
    /\ atEntry' = NoEntry
    /\ Goto(p, "done")
    /\ username' = [username EXCEPT ![p] = NoUser]
    /\ options' = [options EXCEPT ![p] = ZeroOptions]
    /\ keychainMode' = [keychainMode EXCEPT ![p] = NotRead]
    /\ canLogoutRes' = [canLogoutRes EXCEPT ![p] = ZeroCanLogoutRes]
    /\ calls' = [calls EXCEPT ![p] = <<>>]
    /\ UNCHANGED <<shared, secretStoreMu, cacheMu, op, err, seen, preserved>>

\* The caller has taken the result of the entry point and may call again.
Return(p) ==
    /\ pc[p] = "done"
    /\ Goto(p, "idle")
    /\ op' = [op EXCEPT ![p] = "none"]
    /\ username' = [username EXCEPT ![p] = NoUser]
    /\ options' = [options EXCEPT ![p] = ZeroOptions]
    /\ keychainMode' = [keychainMode EXCEPT ![p] = NotRead]
    /\ canLogoutRes' = [canLogoutRes EXCEPT ![p] = ZeroCanLogoutRes]
    /\ err' = [err EXCEPT ![p] = ErrNil]
    /\ calls' = [calls EXCEPT ![p] = <<>>]
    /\ seen' = [seen EXCEPT ![p] = ZeroSeen]
    /\ UNCHANGED <<shared, locks, atEntry, preserved>>

(***************************************************************************)
(* LogoutSelfCheck, lines 124-162.                                         *)
(***************************************************************************)
\* uid := g.ActiveDevice.UID(); if uid.IsNil() { return nil }
SelfCheckUID(p) ==
    /\ pc[p] = "SelfCheck_uid"
    /\ Goto(p, IF ActiveDevice.user = NoUser THEN "done" ELSE "SelfCheck_device")
    /\ UNCHANGED <<shared, locks, args, locals, calls, atEntry, preserved>>

\* Variant: the self-check takes switchUserMu before its request.
SelfCheckDeviceID_Locks(p) ==
    /\ pc[p] = "SelfCheck_device"
    /\ switchUserMu = NoProc
    /\ switchUserMu' = p
    /\ Goto(p, IF ~ActiveDevice.device THEN "done" ELSE "SelfCheck_post")
    /\ UNCHANGED <<shared, secretStoreMu, cacheMu, args, locals, calls, atEntry, preserved>>

\* deviceID := g.ActiveDevice.DeviceID(); if deviceID.IsNil() { return nil }
SelfCheckDeviceID(p) ==
    /\ pc[p] = "SelfCheck_device"
    /\ Goto(p, IF ~ActiveDevice.device THEN "done" ELSE "SelfCheck_post")
    /\ UNCHANGED <<shared, locks, args, locals, calls, atEntry, preserved>>

\* Variant: the self-check logs out keeping the secrets.
SelfCheckOptions_Keep == [KeepSecrets |-> TRUE, Force |-> FALSE]

\* return mctx.LogoutKillSecrets(): the options of the logout a self-check starts.
SelfCheckOptions == [KeepSecrets |-> FALSE, Force |-> FALSE]

\* Variant: a failed request is issued again.
AfterPostError_Retry == "SelfCheck_post"

\* if err != nil { return err }, after g.API.Post and after GetBool.
AfterPostError == "done"

\* Variant: the logout is started whatever the verdict is.
AfterVerdict_Always(logout) == "LogoutWithOptions"

\* What LogoutSelfCheck does with the parsed verdict, lines 156-161.
AfterVerdict(logout) == IF logout THEN "LogoutWithOptions" ELSE "done"

\* res, err := g.API.Post(mctx, arg); logout, err := ...GetBool();
\* if logout { return mctx.LogoutKillSecrets() }
SelfCheckPost(p) ==
    /\ pc[p] = "SelfCheck_post"
    /\ \/ /\ Call(p, "API.Post:err")
          /\ err' = [err EXCEPT ![p] = ErrPost]
          /\ Goto(p, AfterPostError)
          /\ UNCHANGED options
       \/ /\ Call(p, "API.Post:badbody")
          /\ err' = [err EXCEPT ![p] = ErrGetBool]
          /\ Goto(p, AfterPostError)
          /\ UNCHANGED options
       \/ \E logout \in BOOLEAN :
          /\ Call(p, IF logout THEN "API.Post:logout" ELSE "API.Post:stay")
          /\ Goto(p, AfterVerdict(logout))
          /\ options' = [options EXCEPT ![p] = IF logout THEN SelfCheckOptions ELSE @]
          /\ UNCHANGED err
    /\ UNCHANGED <<shared, locks, op, username, keychainMode, canLogoutRes, seen,
                   atEntry, preserved>>

\* One step of a caller in P that is inside an entry point.
Steps(P) ==
    \/ \E p \in P : LogoutWithOptions(p)
    \/ \E p \in P : Acquire(p)
    \/ \E p \in P : CanLogoutValid(p)
    \/ \E p \in P : CanLogoutMode(p)
    \/ \E p \in P : CanLogoutCheck(p)
    \/ \E p \in P : CanLogoutPw(p)
    \/ \E p \in P : CanLogoutReturn(p)
    \/ \E p \in P : ClearGetKeychainMode(p)
    \/ \E p \in P : LocalSigchainGuardClear(p)
    \/ \E p \in P : CallLogoutHooks(p)
    \/ \E p \in P : ClearPerUserKeyring(p)
    \/ \E p \in P : FlushCaches(p)
    \/ \E p \in P : FlushCachesUnlock(p)
    \/ \E p \in P : LogoutSecretStoreLock(p)
    \/ \E p \in P : LogoutSecretStoreBody(p)
    \/ \E p \in P : LogoutSecretStoreUnlock(p)
    \/ \E p \in P : ConfigReload(p)
    \/ \E p \in P : HandleLogout(p)
    \/ \E p \in P : FeatureFlagsClear(p)
    \/ \E p \in P : IdentifyDispatchOnLogout(p)
    \/ \E p \in P : Identify3StateOnLogout(p)
    \/ \E p \in P : UPAKLoaderOnLogout(p)
    \/ \E p \in P : PegboardOnLogout(p)
    \/ \E p \in P : Release(p)
    \/ \E p \in P : Return(p)
    \/ \E p \in P : SelfCheckUID(p)
    \/ \E p \in P : SelfCheckDeviceID(p)
    \/ \E p \in P : SelfCheckPost(p)

\* One caller at a time, with every login, entry point, username and options.
Next ==
    \/ \E d \in LoggedInDevices : Login(d)
    \/ LogoutKillSecrets(1)
    \/ LogoutKeepSecrets(1)
    \/ \E o \in LogoutOptions : CallLogoutWithOptions(1, o)
    \/ \E u \in Users \cup {NoUser}, o \in LogoutOptions :
          CallLogoutUsernameWithOptions(1, u, o)
    \/ CallCanLogout(1)
    \/ CallLogoutSelfCheck(1)
    \/ Steps({1})

Spec == Init /\ [][Next]_vars

\* Concurrent callers: NumProcs of them using the entry points that read the
\* username from the session, against valid sessions of one user in OS
\* keychain mode with a secret store configured.
ConcDevices ==
    { d \in LoggedInDevices : d.valid /\ d.mode = KeychainModeOS /\ d.user = "alice" }

InitConc == Init /\ secretStore

NextConc ==
    \/ \E d \in ConcDevices : Login(d)
    \/ \E p \in Procs : LogoutKillSecrets(p)
    \/ \E p \in Procs : LogoutKeepSecrets(p)
    \/ \E p \in Procs : CallLogoutSelfCheck(p)
    \/ Steps(Procs)

SpecConc == InitConc /\ [][NextConc]_vars

\* Concurrent callers of the keep-secrets logout and of the self-check, whose
\* logout is the kill-secrets one: every path through the three locks.
NextLocks ==
    \/ \E d \in ConcDevices : Login(d)
    \/ \E p \in Procs : LogoutKeepSecrets(p)
    \/ \E p \in Procs : CallLogoutSelfCheck(p)
    \/ Steps(Procs)

SpecLocks == InitConc /\ [][NextLocks]_vars

\* Every collaborator call returns, so a caller inside an entry point takes
\* its next step, and switchUserMu is granted fairly, so a caller that finds
\* it free again and again acquires it.
Fairness == \A p \in Procs : WF_vars(Steps({p})) /\ SF_vars(Acquire(p))

SpecFair == InitConc /\ [][NextLocks]_vars /\ Fairness

\* Concurrent callers against valid sessions of either user in OS keychain
\* mode: between two logouts another user may log in.
SwitchDevices == { d \in LoggedInDevices : d.valid /\ d.mode = KeychainModeOS }

NextSwitch ==
    \/ \E d \in SwitchDevices : Login(d)
    \/ \E p \in Procs : LogoutKeepSecrets(p)
    \/ \E p \in Procs : CallLogoutSelfCheck(p)
    \/ Steps(Procs)

SpecSwitch == InitConc /\ [][NextSwitch]_vars

(***************************************************************************)
(* Properties.  A logout invocation is judged where it returns: at         *)
(* "Release" every step has run, err holds the value returned and          *)
(* switchUserMu is still held, so the state is the one the call leaves.    *)
(***************************************************************************)
IsLogout(p) == op[p] \in {"LogoutWithOptions", "LogoutUsernameWithOptions", "LogoutSelfCheck"}

AtReturn(p) == IsLogout(p) /\ pc[p] = "Release"

\* The positions between the acquisition and the release of switchUserMu.
LockedPCs ==
    {"CanLogout", "CanLogout_mode", "CanLogout_check", "CanLogout_pw", "CanLogout_ret",
     "ClearGetKeychainMode", "LocalSigchainGuard", "CallLogoutHooks", "ClearPerUserKeyring",
     "FlushCaches", "FlushCaches_unlock", "logoutSecretStore", "logoutSecretStore_body",
     "logoutSecretStore_unlock", "ConfigReload", "HandleLogout", "FeatureFlags",
     "IdentifyDispatch", "Identify3State", "UPAKLoader", "Pegboard", "Release"}

InLock(p) == IsLogout(p) /\ pc[p] \in LockedPCs

\* The calls of the teardown that LogoutUsernameWithOptions makes after the gate.
TeardownCalls ==
    {"ClearGetKeychainMode", "ClearGetKeychainMode:err", "LocalSigchainGuard.Clear",
     "CallLogoutHooks", "ClearPerUserKeyring", "FlushCaches", "logoutSecretStore",
     "ClearSecret", "ClearSecret:err", "ConfigReload", "ConfigReload:err",
     "NotifyRouter.HandleLogout", "FeatureFlags.Clear", "IdentifyDispatch.OnLogout",
     "Identify3State.OnLogout", "UPAKLoader.OnLogout", "UPAKLoader.OnLogout:err",
     "Pegboard.OnLogout"}

NoTeardownCall(p) == \A i \in 1..Len(calls[p]) : calls[p][i] \notin TeardownCalls

Denied(p) == ~options[p].KeepSecrets /\ ~canLogoutRes[p].CanLogout

PastGate(p) == options[p].KeepSecrets \/ canLogoutRes[p].CanLogout

SecretStoreUntouched ==
    /\ secrets = atEntry.secrets
    /\ switchedUsers = atEntry.switchedUsers

\* C1: a logout with KeepSecrets=false that CanLogout denies returns the error
\* carrying CanLogout's reason, and returns with the session, the stored
\* secrets and the retention set as they were when it took the lock, having
\* made no call of the teardown (no clear, no hook, no config reload, no
\* notification).
C1_AbortBeforeMutation ==
    \A p \in Procs :
        (AtReturn(p) /\ Denied(p)) =>
            /\ err[p] = ErrCannotLogout(canLogoutRes[p].Reason)
            /\ canLogoutRes[p].Reason # ""
            /\ ActiveDevice = atEntry.ActiveDevice
            /\ SecretStoreUntouched
            /\ keychainMode[p] = NotRead
            /\ NoTeardownCall(p)

C1_Witness ==
    \E p \in Procs :
        /\ AtReturn(p) /\ Denied(p)
        /\ ActiveDevice.valid /\ ActiveDevice.mode = KeychainModeOS
        /\ ActiveDevice.user \in secrets
        /\ canLogoutRes[p].SetPassphrase

\* C2: at most one caller is between the acquisition and the release of
\* switchUserMu, and it is the caller recorded as holding the lock; the
\* inner locks are held by nobody else.
C2_MutualExclusion ==
    /\ \A p, q \in Procs : (InLock(p) /\ InLock(q)) => p = q
    /\ \A p \in Procs : InLock(p) => switchUserMu = p
    /\ \A p \in Procs : ~InLock(p) => (secretStoreMu # p /\ cacheMu # p)

C2_Witness ==
    \E p, q \in Procs :
        /\ p # q
        /\ pc[p] = "HandleLogout"
        /\ pc[q] = "Acquire"

\* The denial rule of CanLogout as the code applies it, over what the
\* evaluation read from the session and was answered by its two queries.
DeniesAtReturn(p) ==
    /\ seen[p].valid = "yes"
    /\ seen[p].mode \in KeychainModes \ {KeychainModeNone}
    /\ seen[p].check \in {"ok", "other"}
    /\ seen[p].pw \in {"random", "error"}

\* C3 (as amended): CanLogout denies if and only if the session is valid, its
\* keychain mode is not KeychainModeNone, the identity check did not return a
\* stale-state error, and the password query failed or reported a random
\* password.
C3_PolicyCorrectness ==
    \A p \in Procs :
        pc[p] = "CanLogout_ret" =>
            /\ ~canLogoutRes[p].CanLogout <=> DeniesAtReturn(p)
            /\ InLock(p) =>
                  /\ seen[p].valid = (IF ActiveDevice.valid THEN "yes" ELSE "no")
                  /\ seen[p].mode \in {NotRead, ActiveDevice.mode}

C3_Witness ==
    \E p \in Procs :
        /\ pc[p] = "CanLogout_ret"
        /\ ~canLogoutRes[p].CanLogout
        /\ seen[p].pw = "error"
        /\ seen[p].mode = KeychainModeOS

\* C3 as stated: CanLogout denies if and only if the mode is OS-backed and the
\* password is flagged random, a stale-state error always giving a permit.
C3_Original ==
    \A p \in Procs :
        pc[p] = "CanLogout_ret" =>
            (~canLogoutRes[p].CanLogout <=>
                /\ seen[p].check # "stale"
                /\ seen[p].mode = KeychainModeOS
                /\ seen[p].pw = "random")

KeepCall(p) == AtReturn(p) /\ options[p].KeepSecrets

NoErase(p) == ~Called(p, "ClearSecret") /\ ~Called(p, "ClearSecret:err")

\* C4 (as amended): when a keep-secrets logout that read the OS keychain mode
\* from the session returns, with a secret store configured and a non-empty
\* username U, U is in switchedUsers and the secret store's erase was not
\* called: the stored secrets are as before the call.
C4_RetainedAfterKeep ==
    \A p \in Procs :
        (/\ KeepCall(p)
         /\ keychainMode[p] = KeychainModeOS
         /\ secretStore
         /\ username[p] # NoUser) =>
            /\ username[p] \in switchedUsers
            /\ NoErase(p)
            /\ secrets = atEntry.secrets

C4_Witness ==
    \E p \in Procs :
        /\ KeepCall(p)
        /\ keychainMode[p] = KeychainModeOS
        /\ secretStore
        /\ username[p] \in secrets
        /\ username[p] \notin atEntry.switchedUsers
        /\ username[p] \in switchedUsers

\* C4 as stated: after every keep-secrets logout for U that returns without
\* error, U is in the retention set and its secret was not touched.
C4_Original ==
    \A p \in Procs :
        (KeepCall(p) /\ err[p] = ErrNil) =>
            /\ username[p] \in switchedUsers
            /\ NoErase(p)
            /\ secrets = atEntry.secrets

KillCallInLock(p) == InLock(p) /\ ~options[p].KeepSecrets

\* C5: throughout a kill-secrets logout for U, the retention set is the one
\* the call found until ClearSecret has succeeded, and from then on it is
\* that set without U, U's secret being gone; a failed or skipped erase
\* removes nothing.
C5_RemovedOnEraseSuccess ==
    \A p \in Procs :
        KillCallInLock(p) =>
            IF Called(p, "ClearSecret")
            THEN /\ switchedUsers = atEntry.switchedUsers \ {username[p]}
                 /\ username[p] \notin secrets
            ELSE switchedUsers = atEntry.switchedUsers

C5_Witness ==
    \E p \in Procs :
        /\ AtReturn(p) /\ ~options[p].KeepSecrets
        /\ Called(p, "ClearSecret")
        /\ username[p] \in atEntry.switchedUsers
        /\ username[p] \in atEntry.secrets
        /\ username[p] \notin switchedUsers

C7_FatalHook ==
    \A p \in Procs :
        Called(p, "UPAKLoader.OnLogout:err") =>
            /\ pc[p] = "Release"
            /\ err[p] = ErrUPAK
            /\ ~Called(p, "Pegboard.OnLogout")

C7_Witness ==
    \E p \in Procs :
        /\ AtReturn(p)
        /\ Called(p, "UPAKLoader.OnLogout:err")
        /\ Called(p, "NotifyRouter.HandleLogout")

\* The steps that follow a successful ClearGetKeychainMode up to the
\* verified-key loader, whatever ClearSecret and ConfigReload returned.
RanToUPAK(p) ==
    /\ \A c \in {"LocalSigchainGuard.Clear", "CallLogoutHooks", "ClearPerUserKeyring",
                 "FlushCaches", "NotifyRouter.HandleLogout", "FeatureFlags.Clear",
                 "IdentifyDispatch.OnLogout", "Identify3State.OnLogout"} : Called(p, c)
    /\ Called(p, "ConfigReload") \/ Called(p, "ConfigReload:err")
    /\ Called(p, "UPAKLoader.OnLogout") \/ Called(p, "UPAKLoader.OnLogout:err")

SelfCheckLogout(p) == AtReturn(p) /\ op[p] = "LogoutSelfCheck"

\* C9 (as amended): a self-check whose verdict is true runs the kill-secrets
\* logout for the active username: when the policy permits and the clear
\* succeeds, the logout notification is broadcast; when moreover the mode
\* read was OS-backed, a store is configured and the username is not empty,
\* the erase is attempted, and when it succeeds the user's secret is gone
\* and the user is not in the retention set.
C9_SelfCheckLogout ==
    \A p \in Procs :
        SelfCheckLogout(p) =>
            /\ Called(p, "API.Post:logout")
            /\ ~options[p].KeepSecrets
            /\ Called(p, "ClearGetKeychainMode") => Called(p, "NotifyRouter.HandleLogout")
            /\ (/\ keychainMode[p] = KeychainModeOS
                /\ secretStore
                /\ username[p] # NoUser) =>
                    /\ Called(p, "ClearSecret") \/ Called(p, "ClearSecret:err")
                    /\ Called(p, "ClearSecret") =>
                          (username[p] \notin secrets /\ username[p] \notin switchedUsers)

C9_Witness ==
    \E p \in Procs :
        /\ SelfCheckLogout(p)
        /\ err[p] = ErrNil
        /\ Called(p, "ClearSecret")
        /\ username[p] \in atEntry.secrets
        /\ username[p] \in atEntry.switchedUsers
        /\ Called(p, "NotifyRouter.HandleLogout")

\* C9 as stated: when the verdict is true and the logout runs to completion,
\* the self-check ends with the active user's secret erased, the retention
\* entry removed and the logout notification broadcast.
C9_Original ==
    \A p \in Procs :
        (SelfCheckLogout(p) /\ err[p] = ErrNil) =>
            /\ username[p] \notin secrets
            /\ username[p] \notin switchedUsers
            /\ Called(p, "NotifyRouter.HandleLogout")

NoSessionCall(p) ==
    /\ AtReturn(p)
    /\ username[p] = NoUser
    /\ atEntry.ActiveDevice = ClearedDevice

Returned(p) == IsLogout(p) /\ pc[p] \in {"done", "idle"}

\* C11: a caller that is not between the acquisition and the deferred release
\* of switchUserMu does not hold it: whichever way LogoutUsernameWithOptions
\* returned (policy denial, error of ClearGetKeychainMode, error of
\* UPAKLoader.OnLogout, success), the lock is free of that caller, and so are
\* the inner locks; the lock is held only by a caller inside the function.
C11_LockReleased ==
    /\ \A p \in Procs : ~InLock(p) => switchUserMu # p
    /\ \A p \in Procs : Returned(p) => (secretStoreMu # p /\ cacheMu # p)
    /\ switchUserMu # NoProc => InLock(switchUserMu)

C11_Witness ==
    \E p \in Procs :
        /\ pc[p] = "done"
        /\ op[p] = "LogoutUsernameWithOptions"
        /\ err[p] = ErrUPAK
        /\ switchUserMu = NoProc

CanLogoutPCs == {"CanLogout", "CanLogout_mode", "CanLogout_check", "CanLogout_pw", "CanLogout_ret"}

\* C12: every step of an evaluation of CanLogout, called on its own or from
\* a logout, leaves the session (with its keychain mode), the secret store,
\* the retention set and the three locks unchanged and makes no call of the
\* teardown (no notification, no logout hook).
C12_CanLogoutReadOnly ==
    [][\A p \in Procs :
          (pc[p] \in CanLogoutPCs /\ pc'[p] # pc[p]) =>
              /\ UNCHANGED <<shared, locks, preserved>>
              /\ calls'[p] = calls[p]
              /\ pc'[p] \in CanLogoutPCs \cup {"done", "Release", "ClearGetKeychainMode"}]_vars

C12_Witness ==
    \E p \in Procs :
        /\ op[p] = "CanLogout" /\ pc[p] = "done"
        /\ ~canLogoutRes[p].CanLogout
        /\ ActiveDevice.valid /\ ActiveDevice.mode = KeychainModeOS
        /\ ActiveDevice.user \in secrets
        /\ switchedUsers # {}

\* C13: an evaluation of CanLogout that saw a valid session in OS keychain
\* mode, an identity check without a stale-state error and a password query
\* answering "random" returns CanLogout=false, SetPassphrase=true and the
\* reason telling the user to set a password first.
C13_RandomPwDenial ==
    \A p \in Procs :
        (/\ pc[p] = "CanLogout_ret"
         /\ seen[p].valid = "yes"
         /\ seen[p].mode = KeychainModeOS
         /\ seen[p].check \in {"ok", "other"}
         /\ seen[p].pw = "random") =>
            /\ canLogoutRes[p] =
                  [CanLogout |-> FALSE, Reason |-> ReasonRandomPW, SetPassphrase |-> TRUE]
            /\ canLogoutRes[p].Reason # ""

C13_Witness ==
    \E p \in Procs :
        /\ pc[p] = "CanLogout_ret"
        /\ op[p] = "CanLogout"
        /\ seen[p].mode = KeychainModeOS
        /\ seen[p].check = "other"
        /\ seen[p].pw = "random"
        /\ canLogoutRes[p].SetPassphrase

\* C14: an evaluation of CanLogout whose identity check returned an error of
\* the stale-state class returns CanLogout=true with SetPassphrase=false, and
\* has not called the password query.
C14_StalePermit ==
    \A p \in Procs :
        seen[p].check = "stale" =>
            /\ pc[p] = "CanLogout_ret"
            /\ canLogoutRes[p].CanLogout
            /\ ~canLogoutRes[p].SetPassphrase
            /\ seen[p].pw = NotRead

C14_Witness ==
    \E p \in Procs :
        /\ pc[p] = "CanLogout_ret"
        /\ seen[p].check = "stale"
        /\ seen[p].mode = KeychainModeOS
        /\ canLogoutRes[p].CanLogout

SelfCheckPCs == {"SelfCheck_uid", "SelfCheck_device", "SelfCheck_post"}

\* The positions of the logout a self-check starts.
LogoutPCs == {"LogoutWithOptions", "Acquire"} \cup LockedPCs

SelfCheckStep(p) == op[p] = "LogoutSelfCheck" /\ pc[p] \in SelfCheckPCs /\ pc'[p] # pc[p]

\* C15: a self-check is inside a logout only after a request that succeeded
\* with the verdict true, which it issues only after reading a user id and a
\* device id; with no user id or no device id it returns nil without a
\* request, with the verdict false it returns nil, and no step of the
\* self-check itself changes the session, the secret store, the retention
\* set or the locks, nor calls anything but the one request.
C15_SelfCheckGate ==
    /\ [](\A p \in Procs :
            (op[p] = "LogoutSelfCheck" /\ pc[p] \in LogoutPCs) =>
                (calls[p] # << >> /\ calls[p][1] = "API.Post:logout"))
    /\ [][\A p \in Procs :
            SelfCheckStep(p) =>
                /\ UNCHANGED <<shared, locks, preserved>>
                /\ pc[p] = "SelfCheck_uid" =>
                      /\ pc'[p] = (IF ActiveDevice.user = NoUser THEN "done"
                                   ELSE "SelfCheck_device")
                      /\ calls'[p] = << >> /\ err'[p] = ErrNil
                /\ pc[p] = "SelfCheck_device" =>
                      /\ pc'[p] = (IF ~ActiveDevice.device THEN "done" ELSE "SelfCheck_post")
                      /\ calls'[p] = << >> /\ err'[p] = ErrNil
                /\ pc[p] = "SelfCheck_post" =>
                      /\ Len(calls'[p]) = 1
                      /\ calls'[p][1] = "API.Post:stay" => (pc'[p] = "done" /\ err'[p] = ErrNil)
                      /\ pc'[p] # "done" =>
                            (pc'[p] = "LogoutWithOptions" /\ calls'[p][1] = "API.Post:logout")]_vars

C15_Witness ==
    \E p \in Procs :
        /\ op[p] = "LogoutSelfCheck" /\ pc[p] = "done"
        /\ calls[p] = <<"API.Post:stay">>
        /\ err[p] = ErrNil
        /\ ActiveDevice.valid /\ ActiveDevice.user \in secrets
        /\ ActiveDevice.user \in switchedUsers

PostCalls == {"API.Post:err", "API.Post:badbody", "API.Post:logout", "API.Post:stay"}

PostCount(p) == Cardinality({i \in 1..Len(calls[p]) : calls[p][i] \in PostCalls})

\* C16: a self-check issues at most one request; when the request failed or
\* its body held no boolean verdict, the self-check has returned exactly
\* that error having called nothing else, it never enters a logout, and the
\* step leaves the session, the secret store, the retention set and the
\* locks unchanged.
C16_SelfCheckErrors ==
    /\ [](\A p \in Procs :
            /\ PostCount(p) <= 1
            /\ Called(p, "API.Post:err") =>
                  (pc[p] = "done" /\ err[p] = ErrPost /\ calls[p] = <<"API.Post:err">>)
            /\ Called(p, "API.Post:badbody") =>
                  (pc[p] = "done" /\ err[p] = ErrGetBool /\ calls[p] = <<"API.Post:badbody">>))
    /\ [][\A p \in Procs :
            (SelfCheckStep(p) /\ pc[p] = "SelfCheck_post"
               /\ (Called(p, "API.Post:err") \/ Called(p, "API.Post:badbody"))') =>
                UNCHANGED <<shared, locks, preserved>>]_vars

C16_Witness ==
    \E p \in Procs :
        /\ op[p] = "LogoutSelfCheck" /\ pc[p] = "done"
        /\ calls[p] = <<"API.Post:badbody">>
        /\ err[p] = ErrGetBool
        /\ ActiveDevice.valid /\ ActiveDevice.user \in secrets

(***************************************************************************)
(* LogoutUsernameWithOptions as a function of the state it finds under the *)
(* lock, its arguments and the answers of its collaborators: what it       *)
(* returns, the state it leaves and the calls it makes, lines 37-93.       *)
(***************************************************************************)
\* The answers the collaborators gave the invocation of caller p.
Outcomes(p) ==
    [res      |-> canLogoutRes[p],
     clearOK  |-> ~Called(p, "ClearGetKeychainMode:err"),
     cleared  |-> ActiveDevice = ClearedDevice,
     eraseOK  |-> ~Called(p, "ClearSecret:err"),
     reloadOK |-> ~Called(p, "ConfigReload:err"),
     upakOK   |-> ~Called(p, "UPAKLoader.OnLogout:err")]

\* logoutSecretStore reaches ClearSecret: lines 102-111.
Erases(store, u, o) == ~SecretStoreNoop(store, u) /\ ~o.KeepSecrets

\* The calls of lines 66-70 with logoutSecretStore.
StoreCalls(km, store, u, o, e) ==
    IF SecretStoreGate(km) # "logoutSecretStore" THEN << >>
    ELSE IF ~Erases(store, u, o) THEN <<"logoutSecretStore">>
    ELSE <<"logoutSecretStore", IF e.eraseOK THEN "ClearSecret" ELSE "ClearSecret:err">>

\* g.switchedUsers after lines 66-70.
StoreSwitched(km, store, u, o, e, sw) ==
    IF SecretStoreGate(km) # "logoutSecretStore" \/ SecretStoreNoop(store, u) THEN sw
    ELSE IF o.KeepSecrets THEN Retain(sw, u)
    ELSE AfterClearSecret(sw, u, e.eraseOK)

\* The stored secrets after lines 66-70.
StoreSecrets(km, store, u, o, e, sec) ==
    IF SecretStoreGate(km) = "logoutSecretStore" /\ Erases(store, u, o) /\ e.eraseOK
    THEN sec \ {u} ELSE sec

\* The calls of lines 48-93 when ClearGetKeychainMode succeeded.
TeardownSequence(km, store, u, o, e) ==
    <<"ClearGetKeychainMode", "LocalSigchainGuard.Clear", "CallLogoutHooks",
      "ClearPerUserKeyring", "FlushCaches">>
    \o StoreCalls(km, store, u, o, e)
    \o <<IF e.reloadOK THEN "ConfigReload" ELSE "ConfigReload:err">>
    \o <<"NotifyRouter.HandleLogout", "FeatureFlags.Clear", "IdentifyDispatch.OnLogout",
         "Identify3State.OnLogout">>
    \o (IF e.upakOK THEN <<"UPAKLoader.OnLogout", "Pegboard.OnLogout">>
        ELSE <<"UPAKLoader.OnLogout:err">>)

\* s is the state found at the acquisition of the lock.
LogoutResult(s, store, u, o, e) ==
    IF AfterAcquire(o) = "CanLogout" /\ AfterCanLogout(e.res) = "Release"
    THEN [err |-> DenialError(e.res), ActiveDevice |-> s.ActiveDevice,
          secrets |-> s.secrets, switchedUsers |-> s.switchedUsers, calls |-> << >>]
    ELSE IF ~e.clearOK
    THEN [err |-> ErrClear,
          ActiveDevice |-> IF e.cleared THEN ClearedDevice ELSE s.ActiveDevice,
          secrets |-> s.secrets, switchedUsers |-> s.switchedUsers,
          calls |-> <<"ClearGetKeychainMode:err">>]
    ELSE [err |-> IF e.upakOK THEN ErrNil ELSE ErrUPAK,
          ActiveDevice |-> ClearedDevice,
          secrets |-> StoreSecrets(s.ActiveDevice.mode, store, u, o, e, s.secrets),
          switchedUsers |-> StoreSwitched(s.ActiveDevice.mode, store, u, o, e, s.switchedUsers),
          calls |-> TeardownSequence(s.ActiveDevice.mode, store, u, o, e)]

\* The calls of the logout itself: a self-check's request comes before them.
LogoutCalls(p) ==
    IF op[p] = "LogoutSelfCheck" /\ calls[p] # << >> THEN Tail(calls[p]) ELSE calls[p]

Actual(p) ==
    [err |-> err[p], ActiveDevice |-> ActiveDevice, secrets |-> secrets,
     switchedUsers |-> switchedUsers, calls |-> LogoutCalls(p)]

WithForce(o, f) == [o EXCEPT !.Force = f]

\* C17: at the return of every logout, what it returned, the state it leaves
\* and the calls it made are those of LogoutUsernameWithOptions computed
\* from the state at entry, the username, the options and the collaborators'
\* answers, and that computation gives the same with Force=true and with
\* Force=false; a denied logout with Force=true has made no call.
C17_ForceNoEffect ==
    \A p \in Procs :
        AtReturn(p) =>
            LET r(f) == LogoutResult(atEntry, secretStore, username[p],
                                     WithForce(options[p], f), Outcomes(p))
            IN  /\ r(TRUE) = r(FALSE)
                /\ Actual(p) = r(options[p].Force)
                /\ (options[p].Force /\ Denied(p)) =>
                      (err[p] = DenialError(canLogoutRes[p]) /\ NoTeardownCall(p))

C17_Witness ==
    \E p \in Procs :
        /\ AtReturn(p)
        /\ options[p].Force /\ Denied(p)
        /\ username[p] \in secrets
        /\ ActiveDevice.valid

Count(p, c) == Cardinality({i \in 1..Len(calls[p]) : calls[p][i] = c})

StepOrder ==
    <<"ClearGetKeychainMode", "LocalSigchainGuard.Clear", "CallLogoutHooks",
      "ClearPerUserKeyring", "FlushCaches", "logoutSecretStore", "ClearSecret",
      "ConfigReload", "NotifyRouter.HandleLogout", "FeatureFlags.Clear",
      "IdentifyDispatch.OnLogout", "Identify3State.OnLogout", "UPAKLoader.OnLogout",
      "Pegboard.OnLogout">>

\* The step a call belongs to, whatever it returned.
StepName(c) ==
    CASE c = "ClearGetKeychainMode:err" -> "ClearGetKeychainMode"
      [] c = "ClearSecret:err" -> "ClearSecret"
      [] c = "ConfigReload:err" -> "ConfigReload"
      [] c = "UPAKLoader.OnLogout:err" -> "UPAKLoader.OnLogout"
      [] OTHER -> c

Rank(c) == CHOOSE i \in 1..Len(StepOrder) : StepOrder[i] = StepName(c)

\* The steps between which the secret store's steps may be absent.
SkipsStore(a, b) ==
    /\ StepName(a) \in {"FlushCaches", "logoutSecretStore"}
    /\ StepName(b) = "ConfigReload"

\* C19: the calls a logout has made past the policy gate are, at every
\* moment, an initial part of the fixed order: the first is
\* ClearGetKeychainMode, each next call is the next step of the order (the
\* secret store's steps being left out when they do not apply), so that no
\* step is made twice or out of order; the keyring clear and the cache flush
\* precede the secret erase, and the notification is sent after the secret
\* store was visited whenever the mode read was the OS keychain.
C19_StepOrder ==
    \A p \in Procs :
        IsLogout(p) =>
            LET c == LogoutCalls(p)
            IN  /\ c # << >> => Rank(c[1]) = 1
                /\ \A i \in 1..(Len(c) - 1) :
                      \/ Rank(c[i + 1]) = Rank(c[i]) + 1
                      \/ SkipsStore(c[i], c[i + 1])
                /\ ~NoErase(p) => (Called(p, "ClearPerUserKeyring") /\ Called(p, "FlushCaches"))
                /\ (Called(p, "NotifyRouter.HandleLogout") /\ keychainMode[p] = KeychainModeOS)
                      => Called(p, "logoutSecretStore")
                /\ (AtReturn(p) /\ err[p] = ErrNil) =>
                      (c # << >> /\ c[Len(c)] = "Pegboard.OnLogout")

C19_Witness ==
    \E p \in Procs :
        /\ AtReturn(p)
        /\ Len(LogoutCalls(p)) = Len(StepOrder)
        /\ Called(p, "ClearSecret")
        /\ Called(p, "Pegboard.OnLogout")

LaterSteps ==
    {"NotifyRouter.HandleLogout", "FeatureFlags.Clear", "IdentifyDispatch.OnLogout",
     "Identify3State.OnLogout"}

\* C20: when ClearSecret or ConfigReload returned an error, the logout still
\* makes every later step: at its return ConfigReload, the notification, the
\* feature-flag and identify resets and UPAKLoader.OnLogout have all been
\* called, and unless UPAKLoader.OnLogout failed, Pegboard.OnLogout has been
\* called and the logout returns nil.
C20_NonFatalFailures ==
    \A p \in Procs :
        (AtReturn(p) /\ (Called(p, "ClearSecret:err") \/ Called(p, "ConfigReload:err"))) =>
            /\ Called(p, "ConfigReload") \/ Called(p, "ConfigReload:err")
            /\ \A c \in LaterSteps : Called(p, c)
            /\ IF Called(p, "UPAKLoader.OnLogout:err")
               THEN err[p] = ErrUPAK
               ELSE /\ Called(p, "UPAKLoader.OnLogout")
                    /\ Called(p, "Pegboard.OnLogout")
                    /\ err[p] = ErrNil

C20_Witness ==
    \E p \in Procs :
        /\ AtReturn(p)
        /\ Called(p, "ClearSecret:err")
        /\ Called(p, "ConfigReload:err")
        /\ Called(p, "Pegboard.OnLogout")
        /\ err[p] = ErrNil
        /\ username[p] \in secrets

\* The logout of caller p is past a successful ClearGetKeychainMode.
Cleared(p) == IsLogout(p) /\ Called(p, "ClearGetKeychainMode")

\* C21: a logout visits the secret store only when the keychain mode it read
\* from the session as it cleared it, the mode the session held at entry and
\* not the one it holds after the clear, is the OS keychain; at its return
\* after a successful clear it has visited the secret store if and only if
\* that mode is the OS keychain, and for any other mode the stored secrets
\* and the retention set are as at entry, with either value of KeepSecrets,
\* ConfigReload and the notification having been called.
C21_SecretStoreGating ==
    \A p \in Procs :
        /\ Cleared(p) =>
              /\ keychainMode[p] = atEntry.ActiveDevice.mode
              /\ ActiveDevice.mode = KeychainModeNone
        /\ (IsLogout(p) /\ Called(p, "logoutSecretStore")) =>
              (Cleared(p) /\ keychainMode[p] = KeychainModeOS)
        /\ (AtReturn(p) /\ Cleared(p)) =>
              /\ Called(p, "logoutSecretStore") <=> keychainMode[p] = KeychainModeOS
              /\ keychainMode[p] # KeychainModeOS => (SecretStoreUntouched /\ NoErase(p))
              /\ Called(p, "ConfigReload") \/ Called(p, "ConfigReload:err")
              /\ Called(p, "NotifyRouter.HandleLogout")

C21_Witness ==
    \E p \in Procs :
        /\ AtReturn(p) /\ Cleared(p)
        /\ atEntry.ActiveDevice.mode = KeychainModeOS
        /\ ActiveDevice.mode # KeychainModeOS
        /\ Called(p, "logoutSecretStore")
        /\ Called(p, "ClearSecret")

\* C22: a logout with KeepSecrets=true never evaluates CanLogout: it is at
\* no position of CanLogout and holds no result of it; it attempts no erase
\* and leaves the stored secrets as at entry; it returns no policy denial,
\* having called ClearGetKeychainMode, also for a valid session in OS
\* keychain mode, for which CanLogout can deny.
C22_KeepSkipsPolicy ==
    \A p \in Procs :
        (IsLogout(p) /\ options[p].KeepSecrets) =>
            /\ pc[p] \notin CanLogoutPCs
            /\ seen[p] = ZeroSeen
            /\ canLogoutRes[p] = ZeroCanLogoutRes
            /\ NoErase(p)
            /\ InLock(p) => secrets = atEntry.secrets
            /\ AtReturn(p) =>
                  /\ err[p] \in {ErrNil, ErrClear, ErrUPAK}
                  /\ Called(p, "ClearGetKeychainMode") \/ Called(p, "ClearGetKeychainMode:err")

C22_Witness ==
    \E p \in Procs :
        /\ KeepCall(p)
        /\ atEntry.ActiveDevice.valid
        /\ atEntry.ActiveDevice.mode = KeychainModeOS
        /\ username[p] \in secrets
        /\ Called(p, "NotifyRouter.HandleLogout")
        /\ err[p] = ErrNil

C24_NoSessionRule ==
    \A p \in Procs :
        seen[p].valid = "no" =>
            /\ pc[p] = "CanLogout_ret"
            /\ canLogoutRes[p] = [CanLogout |-> TRUE, Reason |-> "", SetPassphrase |-> FALSE]
            /\ seen[p].mode = NotRead /\ seen[p].check = NotRead /\ seen[p].pw = NotRead

C24_Witness ==
    \E p \in Procs :
        /\ pc[p] = "CanLogout_ret"
        /\ seen[p].valid = "no"
        /\ ActiveDevice.user # NoUser
        /\ ActiveDevice.mode = KeychainModeOS
        /\ canLogoutRes[p].CanLogout

DenyNoPassphraseCheck ==
    [CanLogout |-> FALSE, Reason |-> ReasonNoPassphraseCheck, SetPassphrase |-> FALSE]

DenyRandomPW == [CanLogout |-> FALSE, Reason |-> ReasonRandomPW, SetPassphrase |-> TRUE]

\* C25: an evaluation of CanLogout whose identity check failed with an error
\* outside the stale-state class goes on to the password query, and its
\* result is the one the query alone decides, the same as after an identity
\* check without error: permit on a password that is not random, the
\* random-password denial on a random one, the denial of rule (d) on a
\* failed query.
C25_FallThrough ==
    \A p \in Procs :
        /\ seen[p].check = "other" => pc[p] \in {"CanLogout_pw", "CanLogout_ret"}
        /\ (pc[p] = "CanLogout_ret" /\ seen[p].check \in {"ok", "other"}) =>
              /\ seen[p].pw \in PwOutcomes
              /\ canLogoutRes[p] =
                    (CASE seen[p].pw = "notrandom" -> Permit
                       [] seen[p].pw = "random" -> DenyRandomPW
                       [] seen[p].pw = "error" -> DenyNoPassphraseCheck)

C25_Witness ==
    \E p \in Procs :
        /\ pc[p] = "CanLogout_ret"
        /\ seen[p].check = "other"
        /\ seen[p].pw = "notrandom"
        /\ canLogoutRes[p].CanLogout

\* C26: an evaluation of CanLogout whose password query failed denies with
\* SetPassphrase=false and the reason that the passphrase could not be
\* ensured; a logout with KeepSecrets=false that got this denial returns the
\* error carrying that reason, having made no call of the teardown and
\* leaving session, stored secrets and retention set as at entry.
C26_QueryFailureDenies ==
    \A p \in Procs :
        /\ seen[p].pw = "error" =>
              (pc[p] = "CanLogout_ret" /\ canLogoutRes[p] = DenyNoPassphraseCheck)
        /\ (AtReturn(p) /\ ~options[p].KeepSecrets
               /\ canLogoutRes[p].Reason = ReasonNoPassphraseCheck) =>
              /\ ~canLogoutRes[p].SetPassphrase
              /\ err[p] = ErrCannotLogout(ReasonNoPassphraseCheck)
              /\ ActiveDevice = atEntry.ActiveDevice
              /\ SecretStoreUntouched
              /\ NoTeardownCall(p)

C26_Witness ==
    \E p \in Procs :
        /\ AtReturn(p) /\ ~options[p].KeepSecrets
        /\ canLogoutRes[p] = DenyNoPassphraseCheck
        /\ ActiveDevice.valid
        /\ ActiveDevice.user \in secrets

\* C27: a logout that is given no secret store or an empty username attempts
\* no erase and leaves the retention set and the stored secrets as at entry,
\* with either value of KeepSecrets, also when it visits logoutSecretStore.
C27_SecretStoreNoop ==
    \A p \in Procs :
        (InLock(p) /\ (~secretStore \/ username[p] = NoUser)) =>
            /\ NoErase(p)
            /\ SecretStoreUntouched

C27_Witness ==
    \E p \in Procs :
        /\ AtReturn(p)
        /\ options[p].KeepSecrets
        /\ Called(p, "logoutSecretStore")
        /\ username[p] = NoUser
        /\ secretStore
        /\ secrets # {}

\* C28: once ClearSecret has failed in a logout, the retention set and the
\* stored secrets are those found at entry, and the logout goes on: it
\* returns nil, or the error of UPAKLoader.OnLogout when that hook failed.
C28_EraseFailure ==
    \A p \in Procs :
        (InLock(p) /\ Called(p, "ClearSecret:err")) =>
            /\ switchedUsers = atEntry.switchedUsers
            /\ secrets = atEntry.secrets
            /\ ~Called(p, "ClearSecret")
            /\ AtReturn(p) =>
                  /\ err[p] = (IF Called(p, "UPAKLoader.OnLogout:err") THEN ErrUPAK ELSE ErrNil)
                  /\ Called(p, "NotifyRouter.HandleLogout")

C28_Witness ==
    \E p \in Procs :
        /\ AtReturn(p)
        /\ Called(p, "ClearSecret:err")
        /\ username[p] \in switchedUsers
        /\ username[p] \in secrets
        /\ err[p] = ErrNil

\* CanLogout as a function of the session and of the answers of the identity
\* check and of the password query, lines 165-211.
CanLogoutResult(d, c, w) ==
    IF ~d.valid THEN Permit
    ELSE IF ModePermits(d.mode) THEN Permit
    ELSE IF CheckPermits(c) THEN Permit
    ELSE ResOfPw(w)

C30_SelfCheckDenied ==
    \A p \in Procs :
        /\ (SelfCheckLogout(p) /\ Denied(p)) =>
              /\ calls[p] = <<"API.Post:logout">>
              /\ canLogoutRes[p] \in {DenyRandomPW, DenyNoPassphraseCheck}
              /\ err[p] = ErrCannotLogout(canLogoutRes[p].Reason)
              /\ ActiveDevice = atEntry.ActiveDevice
              /\ SecretStoreUntouched
              /\ ~Called(p, "NotifyRouter.HandleLogout")
        /\ (op[p] = "LogoutSelfCheck" /\ pc[p] = "done") =>
              err[p] \in {ErrNil, ErrPost, ErrGetBool, ErrClear, ErrUPAK,
                          ErrCannotLogout(ReasonRandomPW),
                          ErrCannotLogout(ReasonNoPassphraseCheck)}

C30_Witness ==
    \E p \in Procs :
        /\ SelfCheckLogout(p) /\ Denied(p)
        /\ canLogoutRes[p] = DenyRandomPW
        /\ username[p] \in secrets
        /\ username[p] \in switchedUsers
        /\ ActiveDevice.valid

\* C34: once ClearGetKeychainMode has returned an error, the logout is at its
\* return with that error and has made no other call: no sigchain-guard
\* clear, no hook, no cache flush, no visit of the secret store, no config
\* reload, no notification; the stored secrets and the retention set are as
\* at entry.
C34_ClearFailure ==
    \A p \in Procs :
        Called(p, "ClearGetKeychainMode:err") =>
            /\ pc[p] = "Release"
            /\ err[p] = ErrClear
            /\ LogoutCalls(p) = <<"ClearGetKeychainMode:err">>
            /\ SecretStoreUntouched
            /\ keychainMode[p] = NotRead

C34_Witness ==
    \E p \in Procs :
        /\ AtReturn(p)
        /\ Called(p, "ClearGetKeychainMode:err")
        /\ atEntry.ActiveDevice.valid
        /\ atEntry.ActiveDevice.mode = KeychainModeOS
        /\ username[p] \in secrets
        /\ secretStore

OtherUsers(p) == Users \ {username[p]}

\* C36: throughout a logout for username U, every other username has a
\* stored secret exactly if it had one at entry and is in the retention set
\* exactly if it was at entry.
C36_FrameOnOtherUsers ==
    \A p \in Procs :
        InLock(p) =>
            \A u \in OtherUsers(p) :
                /\ u \in secrets <=> u \in atEntry.secrets
                /\ u \in switchedUsers <=> u \in atEntry.switchedUsers

C36_Witness ==
    \E p \in Procs :
        /\ AtReturn(p)
        /\ Called(p, "ClearSecret")
        /\ username[p] \in atEntry.switchedUsers
        /\ \E u \in OtherUsers(p) : u \in secrets /\ u \in switchedUsers

\* C38: every result CanLogout returns has SetPassphrase only on a denial
\* and a reason exactly on a denial.
C38_DecisionRecord ==
    \A p \in Procs :
        pc[p] = "CanLogout_ret" =>
            /\ canLogoutRes[p].SetPassphrase => ~canLogoutRes[p].CanLogout
            /\ canLogoutRes[p].Reason # "" <=> ~canLogoutRes[p].CanLogout

C38_Witness ==
    \E p \in Procs :
        /\ pc[p] = "CanLogout_ret"
        /\ seen[p].check = "stale"
        /\ canLogoutRes[p].CanLogout
        /\ canLogoutRes[p].Reason = ""

\* At the three positions where a caller requests a lock, the lock can be
\* taken, or it is switchUserMu and its holder is inside the function, where
\* the same holds of it.
CanProgress(p) ==
    CASE pc[p] = "Acquire" ->
           ENABLED Acquire(p) \/ (switchUserMu \in Procs \ {p} /\ InLock(switchUserMu))
      [] pc[p] = "FlushCaches" -> ENABLED FlushCaches(p)
      [] pc[p] = "logoutSecretStore" -> ENABLED LogoutSecretStoreLock(p)
      [] OTHER -> ENABLED Steps({p})

\* C31: the secret-store lock and the cache lock are held only by the caller
\* that holds switchUserMu, inside logoutSecretStore and inside FlushCaches;
\* a caller waiting for switchUserMu or returning holds neither, so the
\* inner locks are taken after and released before switchUserMu; and the
\* caller that holds switchUserMu can always take a step, an inner lock it
\* requests being free, while a caller waiting for switchUserMu waits
\* behind such a holder: there is no deadlock.
C31_LockNesting ==
    \A p \in Procs :
        /\ secretStoreMu = p <=>
              pc[p] \in {"logoutSecretStore_body", "logoutSecretStore_unlock"}
        /\ cacheMu = p <=> pc[p] = "FlushCaches_unlock"
        /\ (secretStoreMu = p \/ cacheMu = p) => (switchUserMu = p /\ InLock(p))
        /\ pc[p] \in {"Acquire", "Release", "done", "idle"} =>
              (secretStoreMu # p /\ cacheMu # p)
        /\ (switchUserMu = p \/ pc[p] = "Acquire") => CanProgress(p)

C31_Witness ==
    \E p, q \in Procs :
        /\ p # q
        /\ secretStoreMu = p
        /\ switchUserMu = p
        /\ pc[q] = "Acquire"
        /\ op[q] = "LogoutSelfCheck"

\* C32: a logout evaluates CanLogout and then clears the session while it
\* holds switchUserMu, the session being all along the one it found at the
\* acquisition; the result of CanLogout is the one of that session, and a
\* logout with KeepSecrets=false calls ClearGetKeychainMode only with a
\* permit, reading the keychain mode of that same session.
C32_PolicyInsideLock ==
    \A p \in Procs :
        /\ (IsLogout(p) /\ pc[p] \in CanLogoutPCs \cup {"ClearGetKeychainMode"}) =>
              /\ switchUserMu = p
              /\ ActiveDevice = atEntry.ActiveDevice
        /\ (IsLogout(p) /\ pc[p] = "CanLogout_ret") =>
              canLogoutRes[p] = CanLogoutResult(ActiveDevice, seen[p].check, seen[p].pw)
        /\ (IsLogout(p) /\ pc[p] = "ClearGetKeychainMode" /\ ~options[p].KeepSecrets) =>
              canLogoutRes[p].CanLogout
        /\ (Cleared(p) /\ ~options[p].KeepSecrets) =>
              /\ canLogoutRes[p].CanLogout
              /\ keychainMode[p] = atEntry.ActiveDevice.mode

C32_Witness ==
    \E p, q \in Procs :
        /\ p # q
        /\ pc[p] = "ClearGetKeychainMode" /\ ~options[p].KeepSecrets
        /\ ActiveDevice.valid /\ ActiveDevice.mode = KeychainModeOS
        /\ pc[q] = "Acquire" /\ ~options[q].KeepSecrets

\* C37: a self-check that reads the user id and the device id and makes its
\* request holds none of the locks; a caller waiting
\* for a free switchUserMu can take it whatever the self-checks are doing;
\* and a self-check whose logout found the session already cleared can
\* still step to its return.
C37_SelfCheckOutsideLock ==
    \A p \in Procs :
        /\ (op[p] = "LogoutSelfCheck" /\ pc[p] \in SelfCheckPCs) =>
              /\ switchUserMu # p /\ secretStoreMu # p /\ cacheMu # p
              /\ \A q \in Procs \ {p} :
                    (pc[q] = "Acquire" /\ switchUserMu = NoProc) => ENABLED Acquire(q)
        /\ (op[p] = "LogoutSelfCheck" /\ InLock(p)
               /\ atEntry.ActiveDevice = ClearedDevice) => ENABLED Steps({p})

C37_Witness ==
    \E p, q \in Procs :
        /\ p # q
        /\ op[p] = "LogoutSelfCheck" /\ AtReturn(p)
        /\ atEntry.ActiveDevice = ClearedDevice
        /\ username[p] # NoUser
        /\ err[p] = ErrNil
        /\ pc[q] = "done" /\ op[q] = "LogoutWithOptions" /\ err[q] = ErrNil

\* C35: a logout that read its username from the session before it acquired
\* switchUserMu erases or retains, in logoutSecretStore, the secret of the
\* user whose session it found at the acquisition and cleared.
C35_UsernameUnderLock ==
    \A p \in Procs :
        (/\ op[p] \in {"LogoutWithOptions", "LogoutSelfCheck"}
         /\ switchUserMu = p
         /\ Called(p, "logoutSecretStore")
         /\ ~SecretStoreNoop(secretStore, username[p])) =>
            username[p] = atEntry.ActiveDevice.user

\* C33: with every collaborator call returning and switchUserMu granted
\* fairly, a caller waiting for switchUserMu eventually holds it, a caller
\* that holds it eventually has returned with the lock released, and every
\* caller inside an entry point eventually has its result.
C33_Termination ==
    \A p \in Procs :
        /\ (pc[p] = "Acquire") ~> (switchUserMu = p)
        /\ (switchUserMu = p) ~> (pc[p] = "done" /\ switchUserMu # p)
        /\ (pc[p] # "idle") ~> (pc[p] = "done")

C33_Witness ==
    \E p, q \in Procs :
        /\ p # q
        /\ pc[q] = "Acquire"
        /\ switchUserMu = p
        /\ pc[p] = "Release"
        /\ err[p] # ErrNil

====
